---- MODULE Spec2Model ----
(***************************************************************************)
(* Model of cmd/flags.go of bluetuith: the layered configuration loader    *)
(* (parse) and the per-option validators (cmdOptionXxx) run in a fixed      *)
(* order at startup.                                                       *)
(*                                                                         *)
(* A Go string is modelled as a sequence of atoms (<<"hci", "0">> is the   *)
(* text hci0, <<>> the empty string); the separators the code looks at     *)
(* (",", ":", " ", "/", "@", "\n", "{", "}") are atoms of their own, so    *)
(* that Split, FieldsFunc, Join, Base and TrimRight are computed as the    *)
(* library computes them.                                                  *)
(***************************************************************************)
EXTENDS Integers, Sequences, FiniteSets, TLC

VARIABLES
    args,      \* os.Args[1:] as parsed by pflag: per flag, Changed and its value
    argsOk,    \* FALSE when os.Args holds an unknown or malformed flag
    help,      \* TRUE when --help was given (pflag calls fs.Usage)
    file,      \* the content of bluetuith.conf, per key
    fileOk,    \* FALSE when bluetuith.conf is not valid HJSON
    pathOk,    \* FALSE when ConfigPath fails
    adapters,  \* bluez: the live adapter list, b.GetAdapters()
    Version,   \* the build's Version string
    config,    \* the koanf property store
    current,   \* bluez: the current adapter
    applied,   \* the theme package: the theme mapping last applied
    generated, \* the default configuration has been generated
    pc,        \* position of the startup sequence
    exited,    \* the process has terminated
    status,    \* its exit status
    stdout,    \* text printed with status 0
    stderr     \* text printed by PrintError

vars == <<args, argsOk, help, file, fileOk, pathOk, adapters, Version,
          config, current, applied, generated, pc, exited, status, stdout, stderr>>

(***************************************************************************)
(* Bounds of the model.                                                    *)
(***************************************************************************)
\* the largest number of comma-separated tokens of an --adapter-states value
MaxTokens == 2

(***************************************************************************)
(* Go strings and the library functions the code calls on them.            *)
(***************************************************************************)
RECURSIVE Split(_, _)
\* strings.Split(s, sep) for a one-atom separator
Split(s, sep) ==
    IF \A i \in 1..Len(s) : s[i] # sep
    THEN <<s>>
    ELSE LET i == CHOOSE j \in 1..Len(s) :
                      s[j] = sep /\ \A k \in 1..(j - 1) : s[k] # sep
         IN  <<SubSeq(s, 1, i - 1)>> \o Split(SubSeq(s, i + 1, Len(s)), sep)

RECURSIVE FieldsFunc(_, _)
\* strings.FieldsFunc(s, f) with f true of the atoms in seps
FieldsFunc(s, seps) ==
    IF \A i \in 1..Len(s) : s[i] \in seps
    THEN <<>>
    ELSE LET b == CHOOSE j \in 1..Len(s) :
                      s[j] \notin seps /\ \A k \in 1..(j - 1) : s[k] \in seps
             e == CHOOSE j \in b..Len(s) :
                      /\ \A k \in b..j : s[k] \notin seps
                      /\ (j = Len(s) \/ s[j + 1] \in seps)
         IN  <<SubSeq(s, b, e)>> \o FieldsFunc(SubSeq(s, e + 1, Len(s)), seps)

RECURSIVE Join(_, _)
\* strings.Join(elems, sep)
Join(elems, sep) ==
    IF Len(elems) = 0 THEN <<>>
    ELSE IF Len(elems) = 1 THEN elems[1]
    ELSE elems[1] \o <<sep>> \o Join(Tail(elems), sep)

RECURSIVE TrimRight(_, _)
\* strings.TrimRight(s, cutset) for a one-atom cutset
TrimRight(s, cut) ==
    IF Len(s) > 0 /\ s[Len(s)] = cut
    THEN TrimRight(SubSeq(s, 1, Len(s) - 1), cut)
    ELSE s

\* filepath.Base(path): the last element of the path, trailing slashes removed
Base(path) ==
    LET p == TrimRight(path, "/")
    IN  IF Len(path) = 0 THEN <<".">>
        ELSE IF Len(p) = 0 THEN <<"/">>
        ELSE LET f == FieldsFunc(p, {"/"}) IN f[Len(f)]

(***************************************************************************)
(* Values of the property store: a string, a boolean, a string-keyed       *)
(* mapping, or no value.                                                   *)
(***************************************************************************)
StrVal(s) == [t |-> "str", v |-> s]
BoolVal(b) == [t |-> "bool", v |-> b]
MapVal(m) == [t |-> "map", v |-> m]
Absent == [t |-> "absent", v |-> <<>>]

\* the mapping with no key
EmptyMap == [k \in {} |-> <<>>]

\* m with key k set to v (Go: m[k] = v)
MapSet(m, k, v) == [x \in DOMAIN m \cup {k} |-> IF x = k THEN v ELSE m[x]]

(***************************************************************************)
(* The option table.                                                       *)
(***************************************************************************)
options == <<
    [Name |-> "list-adapters", Value |-> <<>>, IsBoolean |-> TRUE,
     Description |-> <<"List available adapters.">>],
    [Name |-> "adapter", Value |-> <<>>, IsBoolean |-> FALSE,
     Description |-> <<"Specify an adapter to use. (For example, hci0)">>],
    [Name |-> "receive-dir", Value |-> <<>>, IsBoolean |-> FALSE,
     Description |-> <<"Specify a directory to store received files.">>],
    [Name |-> "gsm-apn", Value |-> <<>>, IsBoolean |-> FALSE,
     Description |-> <<"Specify GSM APN to connect to. (Required for DUN)">>],
    [Name |-> "gsm-number", Value |-> <<>>, IsBoolean |-> FALSE,
     Description |-> <<"Specify GSM number to dial. (Required for DUN)">>],
    [Name |-> "adapter-states", Value |-> <<>>, IsBoolean |-> FALSE,
     Description |-> <<"Specify adapter states to enable/disable.">>],
    [Name |-> "connect-bdaddr", Value |-> <<>>, IsBoolean |-> FALSE,
     Description |-> <<"Specify device address to connect">>],
    [Name |-> "theme", Value |-> <<>>, IsBoolean |-> FALSE,
     Description |-> <<"Specify a theme in the HJSON format.">>],
    [Name |-> "no-warning", Value |-> <<>>, IsBoolean |-> TRUE,
     Description |-> <<"Do not display warnings when the application has initialized.">>],
    [Name |-> "no-help-display", Value |-> <<>>, IsBoolean |-> TRUE,
     Description |-> <<"Do not display help keybindings in the application.">>],
    [Name |-> "confirm-on-quit", Value |-> <<>>, IsBoolean |-> TRUE,
     Description |-> <<"Ask for confirmation before quitting the application.">>],
    [Name |-> "generate", Value |-> <<>>, IsBoolean |-> TRUE,
     Description |-> <<"Generate configuration.">>],
    [Name |-> "version", Value |-> <<>>, IsBoolean |-> TRUE,
     Description |-> <<"Print version information.">> ] >>

\* the names of the options: the keys of the store
Keys == {options[i].Name : i \in 1..Len(options)}

\* the descriptor of the option named k
OptionOf(k) == options[CHOOSE i \in 1..Len(options) : options[i].Name = k]

\* the flag set after registration: each flag's default value
\* (fs.Bool(name, false, ..), fs.String(name, option.Value, ..))
FlagDefault(k) ==
    IF OptionOf(k).IsBoolean THEN BoolVal(FALSE) ELSE StrVal(OptionOf(k).Value)

\* fs.VisitAll visits the flags in lexicographical order of their names
VisitAllOrder == <<"adapter", "adapter-states", "confirm-on-quit", "connect-bdaddr",
                   "generate", "gsm-apn", "gsm-number", "list-adapters",
                   "no-help-display", "no-warning", "receive-dir", "theme", "version">>

(***************************************************************************)
(* The process: the part of the state the startup code reads and writes.   *)
(***************************************************************************)
\* print a diagnostic to the error stream and terminate with a non-zero status
PrintError(p, message) ==
    [p EXCEPT !.exited = TRUE, !.status = 1, !.stderr = message]

\* print text and terminate the process with the given status
PrintAndExit(p, text, code) ==
    [p EXCEPT !.exited = TRUE, !.status = code, !.stdout = text]

\* the string value of a property: empty if absent or not string-typed
GetProperty(p, name) ==
    IF p.config[name].t = "str" THEN p.config[name].v ELSE <<>>

\* the boolean check of a property
IsPropertyEnabled(p, name) ==
    p.config[name].t = "bool" /\ p.config[name].v

\* overwrite a property
AddProperty(p, name, value) ==
    [p EXCEPT !.config[name] = value]

(***************************************************************************)
(* parse: the layered loader.                                              *)
(***************************************************************************)
\* the suffix fs.Usage appends to a flag's name
UsageSuffix(name) ==
    CASE name = "adapter" -> <<" <adapter>">>
      [] name = "adapter-states" -> <<" [<property>:<state>]">>
      [] name = "connect-bdaddr" -> <<" <address>">>
      [] name = "receive-dir" -> <<" <dir>">>
      [] name = "gsm-apn" -> <<" <apn>">>
      [] name = "gsm-number" -> <<" <number>">>
      [] name = "set-theme" -> <<" <theme>">>
      [] OTHER -> <<>>

RECURSIVE UsageLines(_)
\* the lines fs.Usage renders for the flags named in names ("  --" and a
\* name are longer than 4 bytes, so the line always breaks before the text)
UsageLines(names) ==
    IF Len(names) = 0 THEN <<>>
    ELSE <<"  --", names[1]>> \o UsageSuffix(names[1]) \o <<"\n    \t">>
         \o OptionOf(names[1]).Description \o <<"\n">>
         \o UsageLines(Tail(names))

\* the text fs.Usage prints
Usage ==
    <<"bluetuith [<flags>]\n\nConfig file is ", "bluetuith.conf", "\n\nFlags:\n">>
    \o UsageLines(VisitAllOrder) \o <<"\n", "<theme element data>">>

\* config.Load(file.Provider(configFile), hjson.Parser()): the file's keys
\* merged into the store
LoadFile(cfg, f) == [k \in Keys |-> IF f[k] # Absent THEN f[k] ELSE cfg[k]]

\* config.Load(posflag.Provider(fs, ".", config.Koanf), nil): a flag the user
\* changed is always loaded; an unchanged flag's default only when the
\* store has no value for the key
LoadFlags(cfg, a) ==
    [k \in Keys |-> IF a[k].Changed THEN a[k].Value
                    ELSE IF cfg[k] # Absent THEN cfg[k]
                    ELSE FlagDefault(k)]

\* parse with the two loads in the wrong order: the file overlays the flags
parseFileLast(p, in) ==
    IF ~in.pathOk THEN PrintError(p, <<"Cannot get config directory">>)
    ELSE IF in.help THEN PrintAndExit(p, Usage, 0)
    ELSE IF ~in.argsOk THEN PrintError(p, <<"unknown flag">>)
    ELSE IF ~in.fileOk THEN PrintError(p, <<"hjson: syntax error">>)
    ELSE [p EXCEPT !.config = LoadFile(LoadFlags(p.config, in.args), in.file)]

parse(p, in) ==
    IF ~in.pathOk THEN PrintError(p, <<"Cannot get config directory">>)
    ELSE IF in.help THEN PrintAndExit(p, Usage, 0)
    ELSE IF ~in.argsOk THEN PrintError(p, <<"unknown flag">>)
    ELSE IF ~in.fileOk THEN PrintError(p, <<"hjson: syntax error">>)
    ELSE [p EXCEPT !.config = LoadFlags(LoadFile(p.config, in.file), in.args)]

(***************************************************************************)
(* The collaborators: bluez, the filesystem, the HJSON parser, the theme   *)
(* package.                                                                *)
(***************************************************************************)
\* bluez.Adapter{}: no adapter
NoAdapter == [Name |-> <<>>, Path |-> <<>>]

\* b.SetCurrentAdapter(adapter)
SetCurrentAdapter(p, adapter) == [p EXCEPT !.current = adapter]

\* b.SetCurrentAdapter(): the runtime-default adapter, none when there is no adapter
DefaultAdapter(p) ==
    IF Len(p.adapters) = 0 THEN NoAdapter ELSE p.adapters[1]

\* b.GetDevices(): the addresses of the devices known to the current adapter
GetDevices(p) ==
    CASE Base(p.current.Path) = <<"hci", "0">> ->
             << <<"AA:BB:CC:DD:EE:FF">>, <<"11:22:33:44:55:66">> >>
      [] Base(p.current.Path) = <<"hci", "1">> -> << <<"CC:CC:CC:CC:CC:CC">> >>
      [] OTHER -> <<>>

\* os.Stat(path): "dir", "file" or "missing"
Stat(path) ==
    CASE path = <<"/", "tmp">> -> "dir"
      [] path = <<"/", "tmp", "/", "f">> -> "file"
      [] OTHER -> "missing"

\* the text of an HJSON quoted string
Unquote(atom) ==
    CASE atom = "\"red\"" -> <<"red">>
      [] atom = "\"blue\"" -> <<"blue">>
      [] atom = "\"mauve\"" -> <<"mauve">>
      [] OTHER -> <<>>

\* the atoms that are HJSON quoted strings
IsQuoted(atom) == atom \in {"\"red\"", "\"blue\"", "\"mauve\""}

\* the atoms that are HJSON punctuation
HjsonPunct == {"{", "}", ",", ":", " "}

RECURSIVE HjsonMembers(_, _)
\* the members key:"value" of an object, read left to right into m; a later
\* member overwrites an earlier one of the same key
HjsonMembers(members, m) ==
    IF Len(members) = 0 THEN [ok |-> TRUE, v |-> m]
    ELSE LET f == members[1] IN
         IF /\ Len(f) = 3
            /\ f[1] \notin HjsonPunct /\ ~IsQuoted(f[1])
            /\ f[2] = ":"
            /\ IsQuoted(f[3])
         THEN HjsonMembers(Tail(members), MapSet(m, <<f[1]>>, Unquote(f[3])))
         ELSE [ok |-> FALSE, v |-> EmptyMap]

\* hjson.Parser().Unmarshal(t): an object, its root braces optional; the empty
\* text is the empty object; a quoteless value runs to the end of its line
hjsonUnmarshal(t) ==
    LET body == IF Len(t) > 0 /\ t[1] = "{"
                THEN SubSeq(t, 2, Len(t) - 1)
                ELSE t
    IN  IF Len(t) > 0 /\ t[1] = "{" /\ (Len(t) = 1 \/ t[Len(t)] # "}")
        THEN [ok |-> FALSE, v |-> EmptyMap]
        ELSE IF Len(body) = 0 THEN [ok |-> TRUE, v |-> EmptyMap]
        ELSE HjsonMembers(Split(body, ","), EmptyMap)

\* the theme elements and colors the theme package recognizes
ThemeElements == {<<"Adapter">>, <<"Device">>}
ThemeColors == {<<"red">>, <<"blue">>}

\* theme.ParseThemeConfig(themeMap): fails on an unknown element or color,
\* else applies the mapping
ParseThemeConfig(p, themeMap) ==
    IF \E k \in DOMAIN themeMap : k \notin ThemeElements \/ themeMap[k] \notin ThemeColors
    THEN [ok |-> FALSE, p |-> p]
    ELSE [ok |-> TRUE,
          p |-> [p EXCEPT !.applied =
                    [k \in DOMAIN p.applied \cup DOMAIN themeMap |->
                        IF k \in DOMAIN themeMap THEN themeMap[k] ELSE p.applied[k]]]]

\* generate(): writes the default configuration
generate(p) == [p EXCEPT !.generated = TRUE]

(***************************************************************************)
(* The validators.                                                         *)
(***************************************************************************)
RECURSIVE AdapterMatch(_, _, _)
\* the loop of cmdOptionAdapter from index i: the first adapter whose base
\* path segment is optionAdapter
AdapterMatch(p, optionAdapter, i) ==
    IF i > Len(p.adapters)
    THEN PrintError(p, optionAdapter \o <<": The adapter does not exist.">>)
    ELSE IF optionAdapter = Base(p.adapters[i].Path)
    THEN SetCurrentAdapter(p, p.adapters[i])
    ELSE AdapterMatch(p, optionAdapter, i + 1)

\* whether s begins with pre
HasPrefix(s, pre) == Len(pre) <= Len(s) /\ SubSeq(s, 1, Len(pre)) = pre

\* cmdOptionAdapter matching the property as a prefix of the base segment
cmdOptionAdapterPrefix(p) ==
    LET optionAdapter == GetProperty(p, "adapter")
        hits == {i \in 1..Len(p.adapters) :
                    HasPrefix(Base(p.adapters[i].Path), optionAdapter)}
    IN  IF optionAdapter = <<>>
        THEN SetCurrentAdapter(p, DefaultAdapter(p))
        ELSE IF hits = {}
        THEN PrintError(p, optionAdapter \o <<": The adapter does not exist.">>)
        ELSE SetCurrentAdapter(p, p.adapters[CHOOSE i \in hits : \A j \in hits : i <= j])

cmdOptionAdapter(p) ==
    LET optionAdapter == GetProperty(p, "adapter")
    IN  IF optionAdapter = <<>>
        THEN SetCurrentAdapter(p, DefaultAdapter(p))
        ELSE AdapterMatch(p, optionAdapter, 1)

RECURSIVE AdapterPaths(_)
\* "- <path>\n" for each adapter
AdapterPaths(as) ==
    IF Len(as) = 0 THEN <<>>
    ELSE <<"- ">> \o as[1].Path \o <<"\n">> \o AdapterPaths(Tail(as))

\* cmdOptionListAdapters printing the whole path of each adapter
cmdOptionListAdaptersPath(p) ==
    IF ~IsPropertyEnabled(p, "list-adapters") THEN p
    ELSE PrintAndExit(p,
             TrimRight(<<"List of adapters:", "\n">> \o AdapterPaths(p.adapters), "\n"),
             0)

RECURSIVE AdapterLines(_)
\* "- <base>\n" for each adapter
AdapterLines(as) ==
    IF Len(as) = 0 THEN <<>>
    ELSE <<"- ">> \o Base(as[1].Path) \o <<"\n">> \o AdapterLines(Tail(as))

cmdOptionListAdapters(p) ==
    IF ~IsPropertyEnabled(p, "list-adapters") THEN p
    ELSE PrintAndExit(p,
             TrimRight(<<"List of adapters:", "\n">> \o AdapterLines(p.adapters), "\n"),
             0)

propertyOptions == << <<"powered">>, <<"scan">>, <<"discoverable">>, <<"pairable">> >>

stateOptions == << <<"yes">>, <<"no">>, <<"y">>, <<"n">>, <<"on">>, <<"off">> >>

\* the switch on state matching without regard to case
CheckStateAnyCase(state) ==
    CASE state \in {<<"yes">>, <<"y">>, <<"on">>, <<"Yes">>} -> <<"yes">>
      [] state \in {<<"no">>, <<"n">>, <<"off">>} -> <<"no">>
      [] OTHER -> <<>>

\* the switch on state: the canonical state, <<>> for the default branch
CheckState(state) ==
    CASE state \in {<<"yes">>, <<"y">>, <<"on">>} -> <<"yes">>
      [] state \in {<<"no">>, <<"n">>, <<"off">>} -> <<"no">>
      [] OTHER -> <<>>

RECURSIVE AdapterStatesLoopOnce(_, _, _, _, _)
\* the loop appending a property to the sequence only when it is new to the
\* mapping
AdapterStatesLoopOnce(p, propertyAndStates, i, properties, sequence) ==
    IF i > Len(propertyAndStates)
    THEN AddProperty(p, "adapter-states",
             MapVal(MapSet(properties, <<"sequence">>, Join(sequence, ","))))
    ELSE LET ps == propertyAndStates[i]
             property == FieldsFunc(ps, {" ", ":"})
         IN  IF Len(property) # 2
             THEN PrintError(p, <<"Provided property:state format '">> \o ps
                                \o <<"' is incorrect.">>)
             ELSE IF \A j \in 1..Len(propertyOptions) : property[1] # propertyOptions[j]
             THEN PrintError(p, <<"Provided property '">> \o property[1]
                                \o <<"' is incorrect.\nValid properties are '">>
                                \o Join(propertyOptions, ", ") \o <<".'">>)
             ELSE IF CheckState(property[2]) = <<>>
             THEN PrintError(p, <<"Provided state '">> \o property[2]
                                \o <<"' for property '">> \o property[1]
                                \o <<"' is incorrect.\nValid states are '">>
                                \o Join(stateOptions, ", ") \o <<"'.">>)
             ELSE AdapterStatesLoopOnce(p, propertyAndStates, i + 1,
                      MapSet(properties, property[1], CheckState(property[2])),
                      IF property[1] \in DOMAIN properties THEN sequence
                      ELSE Append(sequence, property[1]))

RECURSIVE AdapterStatesLoopEager(_, _, _, _, _)
\* the loop storing the mapping after every token
AdapterStatesLoopEager(p, propertyAndStates, i, properties, sequence) ==
    IF i > Len(propertyAndStates)
    THEN AddProperty(p, "adapter-states",
             MapVal(MapSet(properties, <<"sequence">>, Join(sequence, ","))))
    ELSE LET ps == propertyAndStates[i]
             property == FieldsFunc(ps, {" ", ":"})
         IN  IF Len(property) # 2
             THEN PrintError(p, <<"Provided property:state format '">> \o ps
                                \o <<"' is incorrect.">>)
             ELSE IF \A j \in 1..Len(propertyOptions) : property[1] # propertyOptions[j]
             THEN PrintError(p, <<"Provided property '">> \o property[1]
                                \o <<"' is incorrect.\nValid properties are '">>
                                \o Join(propertyOptions, ", ") \o <<".'">>)
             ELSE IF CheckState(property[2]) = <<>>
             THEN PrintError(p, <<"Provided state '">> \o property[2]
                                \o <<"' for property '">> \o property[1]
                                \o <<"' is incorrect.\nValid states are '">>
                                \o Join(stateOptions, ", ") \o <<"'.">>)
             ELSE AdapterStatesLoopEager(
                      AddProperty(p, "adapter-states",
                          MapVal(MapSet(MapSet(properties, property[1],
                                               CheckState(property[2])),
                                        <<"sequence">>,
                                        Join(Append(sequence, property[1]), ",")))),
                      propertyAndStates, i + 1,
                      MapSet(properties, property[1], CheckState(property[2])),
                      Append(sequence, property[1]))

RECURSIVE AdapterStatesLoop(_, _, _, _, _)
\* the loop of cmdOptionAdapterStates over propertyAndStates from index i,
\* and the store of the mapping after it
AdapterStatesLoop(p, propertyAndStates, i, properties, sequence) ==
    IF i > Len(propertyAndStates)
    THEN AddProperty(p, "adapter-states",
             MapVal(MapSet(properties, <<"sequence">>, Join(sequence, ","))))
    ELSE LET ps == propertyAndStates[i]
             property == FieldsFunc(ps, {" ", ":"})
         IN  IF Len(property) # 2
             THEN PrintError(p, <<"Provided property:state format '">> \o ps
                                \o <<"' is incorrect.">>)
             ELSE IF \A j \in 1..Len(propertyOptions) : property[1] # propertyOptions[j]
             THEN PrintError(p, <<"Provided property '">> \o property[1]
                                \o <<"' is incorrect.\nValid properties are '">>
                                \o Join(propertyOptions, ", ") \o <<".'">>)
             ELSE IF CheckState(property[2]) = <<>>
             THEN PrintError(p, <<"Provided state '">> \o property[2]
                                \o <<"' for property '">> \o property[1]
                                \o <<"' is incorrect.\nValid states are '">>
                                \o Join(stateOptions, ", ") \o <<"'.">>)
             ELSE AdapterStatesLoop(p, propertyAndStates, i + 1,
                      MapSet(properties, property[1], CheckState(property[2])),
                      Append(sequence, property[1]))

\* cmdOptionAdapterStates storing the joined sequence in place of the mapping
cmdOptionAdapterStatesText(p) ==
    LET optionAdapterStates == GetProperty(p, "adapter-states")
        r == AdapterStatesLoop(p, Split(optionAdapterStates, ","), 1, EmptyMap, <<>>)
    IN  IF optionAdapterStates = <<>> THEN p
        ELSE IF r.exited THEN r
        ELSE AddProperty(r, "adapter-states",
                 StrVal(r.config["adapter-states"].v[<<"sequence">>]))

cmdOptionAdapterStates(p) ==
    LET optionAdapterStates == GetProperty(p, "adapter-states")
    IN  IF optionAdapterStates = <<>> THEN p
        ELSE AdapterStatesLoop(p, Split(optionAdapterStates, ","), 1, EmptyMap, <<>>)

RECURSIVE DeviceMatch(_, _, _, _)
\* the loop of cmdOptionConnectBDAddr over the devices from index i
DeviceMatch(p, optionConnectBDAddr, devices, i) ==
    IF i > Len(devices)
    THEN PrintError(p, <<"No device with address '">> \o optionConnectBDAddr
                       \o <<"' found on adapter '">> \o p.current.Name \o <<"' (">>
                       \o Base(p.current.Path) \o <<")">>)
    ELSE IF devices[i] = optionConnectBDAddr
    THEN AddProperty(p, "connect-bdaddr", StrVal(devices[i]))
    ELSE DeviceMatch(p, optionConnectBDAddr, devices, i + 1)

\* cmdOptionConnectBDAddr without the check for a current adapter
cmdOptionConnectBDAddrNoCheck(p) ==
    LET optionConnectBDAddr == GetProperty(p, "connect-bdaddr")
    IN  IF optionConnectBDAddr = <<>> THEN p
        ELSE DeviceMatch(p, optionConnectBDAddr, GetDevices(p), 1)

cmdOptionConnectBDAddr(p) ==
    LET optionConnectBDAddr == GetProperty(p, "connect-bdaddr")
    IN  IF optionConnectBDAddr = <<>> THEN p
        ELSE IF p.current = NoAdapter THEN p
        ELSE DeviceMatch(p, optionConnectBDAddr, GetDevices(p), 1)

\* cmdOptionReceiveDir accepting any path that exists
cmdOptionReceiveDirAnyFile(p) ==
    LET optionReceiveDir == GetProperty(p, "receive-dir")
    IN  IF optionReceiveDir = <<>> THEN p
        ELSE IF Stat(optionReceiveDir) # "missing"
        THEN AddProperty(p, "receive-dir", StrVal(optionReceiveDir))
        ELSE PrintError(p, optionReceiveDir \o <<": Directory is not accessible.">>)

cmdOptionReceiveDir(p) ==
    LET optionReceiveDir == GetProperty(p, "receive-dir")
    IN  IF optionReceiveDir = <<>> THEN p
        ELSE IF Stat(optionReceiveDir) = "dir"
        THEN AddProperty(p, "receive-dir", StrVal(optionReceiveDir))
        ELSE PrintError(p, optionReceiveDir \o <<": Directory is not accessible.">>)

\* cmdOptionGsm without the check: the number is silently defaulted
cmdOptionGsmNoCheck(p) ==
    LET optionGsmNumber == GetProperty(p, "gsm-number")
        optionGsmApn == GetProperty(p, "gsm-apn")
        number == IF optionGsmNumber # <<>> THEN optionGsmNumber ELSE <<"*99#">>
    IN  AddProperty(AddProperty(p, "gsm-apn", StrVal(optionGsmApn)),
                    "gsm-number", StrVal(number))

cmdOptionGsm(p) ==
    LET optionGsmNumber == GetProperty(p, "gsm-number")
        optionGsmApn == GetProperty(p, "gsm-apn")
        number == IF optionGsmNumber # <<>> THEN optionGsmNumber ELSE <<"*99#">>
    IN  IF optionGsmNumber = <<>> /\ optionGsmApn # <<>>
        THEN PrintError(p, <<"Specify GSM Number.">>)
        ELSE AddProperty(AddProperty(p, "gsm-apn", StrVal(optionGsmApn)),
                         "gsm-number", StrVal(number))

cmdOptionTheme(p) ==
    IF p.config["theme"] = Absent THEN p
    ELSE LET optionTheme == p.config["theme"]
             themeConfig == hjsonUnmarshal(optionTheme.v)
         IN  IF optionTheme.t = "str" /\ ~themeConfig.ok
             THEN PrintError(p, <<"Provided theme format is invalid">>)
             ELSE LET q == IF optionTheme.t = "str"
                           THEN AddProperty(p, "theme", MapVal(themeConfig.v))
                           ELSE AddProperty(p, "theme", optionTheme)
                      themeMap == IF q.config["theme"].t = "map"
                                  THEN q.config["theme"].v
                                  ELSE EmptyMap
                      r == ParseThemeConfig(q, themeMap)
                  IN  IF DOMAIN themeMap = {} THEN q
                      ELSE IF ~r.ok THEN PrintError(q, <<"theme: invalid element or color">>)
                      ELSE r.p

cmdOptionGenerate(p) ==
    IF ~IsPropertyEnabled(p, "generate") THEN p
    ELSE [generate(p) EXCEPT !.exited = TRUE, !.status = 0]

cmdOptionVersion(p) ==
    LET versionInfo == Split(p.Version, "@")
    IN  IF ~IsPropertyEnabled(p, "version") THEN p
        ELSE IF Len(versionInfo) < 2
        THEN PrintAndExit(p, <<"Bluetuith v">> \o p.Version, 0)
        ELSE PrintAndExit(p, <<"Bluetuith v">> \o versionInfo[1] \o <<" (">>
                             \o versionInfo[2] \o <<")">>, 0)

(***************************************************************************)
(* The startup sequence.                                                   *)
(***************************************************************************)
\* the loader, then the validators in their fixed order, then the application
StartupOrder == <<"parse", "adapter", "list-adapters", "adapter-states",
                  "connect-bdaddr", "receive-dir", "gsm", "theme", "generate",
                  "version", "run">>

\* the index of a step in the startup order
IndexOf(step) == CHOOSE i \in 1..Len(StartupOrder) : StartupOrder[i] = step

\* the step that follows a step
After(step) == StartupOrder[IndexOf(step) + 1]

\* the process as the startup code sees it
Proc ==
    [config |-> config, current |-> current, applied |-> applied,
     generated |-> generated, exited |-> exited, status |-> status,
     stdout |-> stdout, stderr |-> stderr, adapters |-> adapters,
     Version |-> Version]

\* the command line, the configuration file and the environment
Input ==
    [args |-> args, argsOk |-> argsOk, help |-> help, file |-> file,
     fileOk |-> fileOk, pathOk |-> pathOk]

\* the process becomes r; the startup sequence moves on unless r has exited
Becomes(r) ==
    /\ config' = r.config
    /\ current' = r.current
    /\ applied' = r.applied
    /\ generated' = r.generated
    /\ exited' = r.exited
    /\ status' = r.status
    /\ stdout' = r.stdout
    /\ stderr' = r.stderr
    /\ pc' = IF r.exited THEN pc ELSE After(pc)
    /\ UNCHANGED <<args, argsOk, help, file, fileOk, pathOk, adapters, Version>>

RunParse == pc = "parse" /\ ~exited /\ Becomes(parse(Proc, Input))

RunAdapter == pc = "adapter" /\ ~exited /\ Becomes(cmdOptionAdapter(Proc))

RunListAdapters ==
    pc = "list-adapters" /\ ~exited /\ Becomes(cmdOptionListAdapters(Proc))

RunAdapterStates ==
    pc = "adapter-states" /\ ~exited /\ Becomes(cmdOptionAdapterStates(Proc))

RunConnectBDAddr ==
    pc = "connect-bdaddr" /\ ~exited /\ Becomes(cmdOptionConnectBDAddr(Proc))

RunReceiveDir == pc = "receive-dir" /\ ~exited /\ Becomes(cmdOptionReceiveDir(Proc))

RunGsm == pc = "gsm" /\ ~exited /\ Becomes(cmdOptionGsm(Proc))

RunTheme == pc = "theme" /\ ~exited /\ Becomes(cmdOptionTheme(Proc))

RunGenerate == pc = "generate" /\ ~exited /\ Becomes(cmdOptionGenerate(Proc))

RunVersion == pc = "version" /\ ~exited /\ Becomes(cmdOptionVersion(Proc))

(***************************************************************************)
(* The inputs: command lines, configuration files and environments.        *)
(***************************************************************************)
\* a command line giving exactly the flags of f (a function from keys to
\* values; a key mapped to Absent is not given)
ArgsFrom(f) ==
    [k \in Keys |-> IF k \in DOMAIN f /\ f[k] # Absent
                    THEN [Changed |-> TRUE, Value |-> f[k]]
                    ELSE [Changed |-> FALSE, Value |-> FlagDefault(k)]]

\* a configuration file holding exactly the keys of f
FileFrom(f) == [k \in Keys |-> IF k \in DOMAIN f THEN f[k] ELSE Absent]

NoFlags == [k \in {} |-> Absent]

Hci0 == [Name |-> <<"hci0">>, Path |-> <<"/", "org", "/", "bluez", "/", "hci", "0">>]
Hci1 == [Name |-> <<"hci1">>, Path |-> <<"/", "org", "/", "bluez", "/", "hci", "1">>]
Alt0 == [Name |-> <<"alt0">>, Path |-> <<"/", "alt", "/", "hci", "0">>]

AdapterLists == {<<>>, <<Hci0, Hci1>>, <<Hci1, Alt0, Hci0>>}

Versions == {<<"0.1.9">>, <<"0.1.9", "@", "abcdef">>}

\* the tokens an --adapter-states value is made of
InProps == {"powered", "scan"}
InStates == {"yes", "y", "on", "no", "n", "off"}
TokenTexts ==
    {<<pr, ":", st>> : pr \in InProps, st \in InStates}
    \cup {<<"Pairable", ":", "yes">>, <<"scan", ":", "Yes">>,
          <<"scan", " ", "on">>, <<"powered", ":", " ", "yes">>,
          <<" ", "scan", ":", "off">>, <<"scan">>,
          <<"scan", ":", "on", ":", "off">>, <<>>}

RECURSIVE StatesTexts(_)
\* the values of n comma-separated tokens
StatesTexts(n) ==
    IF n = 1 THEN TokenTexts
    ELSE {s \o <<",">> \o tk : s \in StatesTexts(n - 1), tk \in TokenTexts}

Basic(a, f, as) ==
    [args |-> a, argsOk |-> TRUE, help |-> FALSE, file |-> f, fileOk |-> TRUE,
     pathOk |-> TRUE, adapters |-> as, Version |-> <<"0.1.9">>]

\* "powered: yes, scan:off, Pairable:Yes"
ScenarioPairable ==
    <<"powered", ":", " ", "yes", ",", " ", "scan", ":", "off", ",",
      " ", "Pairable", ":", "Yes">>

\* "scan:on,powered:off"
ScenarioScanPowered == <<"scan", ":", "on", ",", "powered", ":", "off">>

\* command lines that give --adapter-states alone
StatesInputs ==
    {Basic(ArgsFrom("adapter-states" :> StrVal(s)), FileFrom(NoFlags), <<Hci0, Hci1>>) :
        s \in UNION {StatesTexts(n) : n \in 1..MaxTokens}
              \cup {ScenarioPairable, ScenarioScanPowered}}

GoodTheme == <<"{", "Adapter", ":", "\"red\"", ",", "Device", ":", "\"blue\"", "}">>

\* a flag and a file value for the same keys, in every combination
LoadInputs ==
    {Basic(ArgsFrom(("adapter" :> fa) @@ ("list-adapters" :> fl) @@ ("theme" :> ft)
                    @@ ("gsm-number" :> fn)),
           [FileFrom(NoFlags) EXCEPT !["adapter"] = ca, !["list-adapters"] = cl,
                                     !["theme"] = ct, !["gsm-number"] = cn],
           <<Hci0, Hci1>>) :
        fa \in {Absent, StrVal(<<>>), StrVal(<<"hci", "0">>)},
        ca \in {Absent, StrVal(<<"hci", "1">>)},
        fl \in {Absent, BoolVal(TRUE), BoolVal(FALSE)},
        cl \in {Absent, BoolVal(TRUE)},
        ft \in {Absent, StrVal(GoodTheme)},
        ct \in {Absent, StrVal(<<"{", "}">>), MapVal(<<"Adapter">> :> <<"blue">>),
                MapVal(<<"Bogus">> :> <<"blue">>)},
        fn \in {Absent, StrVal(<<"555">>)},
        cn \in {Absent, StrVal(<<"*99#">>)}}

\* the adapter and the device address against the live adapters
AdapterInputs ==
    {Basic(ArgsFrom(("adapter" :> ad) @@ ("connect-bdaddr" :> bd)),
           FileFrom(NoFlags), as) :
        ad \in {Absent, StrVal(<<"hci", "0">>), StrVal(<<"hci", "1">>),
                StrVal(<<"hci">>), StrVal(<<"HCI", "0">>), StrVal(<<"bluez">>),
                StrVal(<<"0">>)},
        bd \in {Absent, StrVal(<<"AA:BB:CC:DD:EE:FF">>), StrVal(<<"aa:bb:cc:dd:ee:ff">>),
                StrVal(<<"CC:CC:CC:CC:CC:CC">>), StrVal(<<"11:22:33:44:55:66">>)},
        as \in AdapterLists}

\* several options at once, valid and invalid
ComboInputs ==
    {Basic(ArgsFrom(("adapter" :> ad) @@ ("connect-bdaddr" :> bd)
                    @@ ("adapter-states" :> st) @@ ("receive-dir" :> rd)
                    @@ ("gsm-apn" :> apn) @@ ("gsm-number" :> num)
                    @@ ("theme" :> th) @@ ("list-adapters" :> la)
                    @@ ("generate" :> gen) @@ ("version" :> ver)),
           FileFrom(NoFlags), <<Hci0, Hci1>>) :
        ad \in {Absent, StrVal(<<"hci", "9">>)},
        bd \in {Absent, StrVal(<<"AA:BB:CC:DD:EE:FF">>), StrVal(<<"CC:CC:CC:CC:CC:CC">>)},
        st \in {Absent, StrVal(<<"scan", ":", "on", ",", "powered", ":", "off">>),
                StrVal(<<"scan", ":", "maybe">>)},
        rd \in {Absent, StrVal(<<"/", "tmp">>), StrVal(<<"/", "tmp", "/", "f">>)},
        apn \in {Absent, StrVal(<<"foo">>)},
        num \in {Absent, StrVal(<<"555">>)},
        th \in {Absent, StrVal(GoodTheme), StrVal(<<"{", "Adapter", ":", "red", "}">>)},
        la \in {Absent, BoolVal(TRUE)},
        gen \in {Absent, BoolVal(TRUE)},
        ver \in {Absent, BoolVal(TRUE)}}

\* the GSM parameters, the receive directory and the theme, from the file
\* or the command line, and the build's version
OptionInputs ==
    {[Basic(ArgsFrom(("gsm-apn" :> apn) @@ ("version" :> ver)),
            FileFrom(("gsm-number" :> num) @@ ("receive-dir" :> rd) @@ ("theme" :> th)),
            <<Hci0, Hci1>>) EXCEPT !.Version = vs] :
        apn \in {Absent, StrVal(<<>>), StrVal(<<"foo">>)},
        num \in {StrVal(<<>>), StrVal(<<"555">>), StrVal(<<"*99#">>)},
        rd \in {StrVal(<<>>), StrVal(<<"/", "tmp">>), StrVal(<<"/", "nowhere">>)},
        th \in {StrVal(<<>>), StrVal(<<"Adapter", ":", "\"blue\"">>),
                StrVal(<<"Adapter", ":", "\"mauve\"">>), StrVal(<<"{">>),
                MapVal(<<"Device">> :> <<"red">>), MapVal(EmptyMap), BoolVal(TRUE)},
        ver \in {Absent, BoolVal(TRUE)},
        vs \in Versions}

\* command lines and files the loader rejects, and --help
LoaderInputs ==
    {[Basic(ArgsFrom("adapter" :> StrVal(<<"hci", "0">>)), FileFrom(NoFlags),
            <<Hci0, Hci1>>)
        EXCEPT !.argsOk = ao, !.help = h, !.fileOk = fo, !.pathOk = po] :
        ao \in BOOLEAN, h \in BOOLEAN, fo \in BOOLEAN, po \in BOOLEAN}

Inputs ==
    StatesInputs \cup LoadInputs \cup AdapterInputs \cup ComboInputs
    \cup OptionInputs \cup LoaderInputs

Init ==
    /\ \E in \in Inputs :
          /\ args = in.args
          /\ argsOk = in.argsOk
          /\ help = in.help
          /\ file = in.file
          /\ fileOk = in.fileOk
          /\ pathOk = in.pathOk
          /\ adapters = in.adapters
          /\ Version = in.Version
    /\ config = [k \in Keys |-> Absent]
    /\ current = NoAdapter
    /\ applied = EmptyMap
    /\ generated = FALSE
    /\ pc = "parse"
    /\ exited = FALSE
    /\ status = 0
    /\ stdout = <<>>
    /\ stderr = <<>>

Next ==
    \/ RunParse
    \/ RunAdapter
    \/ RunListAdapters
    \/ RunAdapterStates
    \/ RunConnectBDAddr
    \/ RunReceiveDir
    \/ RunGsm
    \/ RunTheme
    \/ RunGenerate
    \/ RunVersion

Spec == Init /\ [][Next]_vars

(***************************************************************************)
(* Properties.                                                             *)
(***************************************************************************)
\* the adapter-states text the validator is about to read, its tokens and
\* their fields
RawStates == GetProperty(Proc, "adapter-states")
Tokens == Split(RawStates, ",")
TokFields(i) == FieldsFunc(Tokens[i], {" ", ":"})
KnownProperty(f) == f \in {<<"powered">>, <<"scan">>, <<"discoverable">>, <<"pairable">>}
YesWords == {<<"yes">>, <<"y">>, <<"on">>}
NoWords == {<<"no">>, <<"n">>, <<"off">>}
WellFormed(i) ==
    /\ Len(TokFields(i)) = 2
    /\ KnownProperty(TokFields(i)[1])
    /\ TokFields(i)[2] \in YesWords \cup NoWords
\* the adapter-states validator takes a step on a non-empty text
StatesStep == pc = "adapter-states" /\ ~exited /\ RawStates # <<>>
\* the last token that names the property of token i
IsLastNaming(i) ==
    \A j \in (i + 1)..Len(Tokens) : TokFields(j)[1] # TokFields(i)[1]

\* C1: after the loader has run, a flag given on the command line holds its
\* value in the store whatever the file says, and a key the file gives and
\* the command line does not holds the file's value.
C1_FlagsOverFile ==
    pc = "adapter" =>
        \A k \in Keys :
            /\ args[k].Changed => config[k] = args[k].Value
            /\ (~args[k].Changed /\ file[k] # Absent) => config[k] = file[k]

\* C1 witness: the loader has run on a command line and a file that disagree
\* on a key, with another key given by the file alone.
C1_Witness ==
    /\ pc = "adapter"
    /\ args["adapter"].Changed /\ file["adapter"] # Absent
    /\ file["adapter"] # args["adapter"].Value
    /\ ~args["list-adapters"].Changed /\ file["list-adapters"] = BoolVal(TRUE)
    /\ config["list-adapters"] # FlagDefault("list-adapters")

\* C2: the adapter-states validator rejects every token whose state is none
\* of yes, y, on, no, n, off (case-sensitively); when it accepts, every state
\* of the stored mapping is yes or no: yes when the last token naming the
\* property says yes, y or on, no when it says no, n or off.
C2_StateNormalized ==
    [][StatesStep =>
        /\ (\E i \in 1..Len(Tokens) :
               Len(TokFields(i)) = 2 /\ TokFields(i)[2] \notin YesWords \cup NoWords)
           => (exited' /\ status' = 1)
        /\ ~exited' =>
             LET m == config'["adapter-states"].v IN
             /\ config'["adapter-states"].t = "map"
             /\ \A k \in DOMAIN m \ {<<"sequence">>} : m[k] \in {<<"yes">>, <<"no">>}
             /\ \A i \in 1..Len(Tokens) :
                   IsLastNaming(i) =>
                       /\ TokFields(i)[2] \in YesWords => m[TokFields(i)[1]] = <<"yes">>
                       /\ TokFields(i)[2] \in NoWords => m[TokFields(i)[1]] = <<"no">>
    ]_vars

\* C2 witness: "powered:y,scan:off" has been accepted and stored as
\* powered yes, scan no.
C2_Witness ==
    /\ pc = "connect-bdaddr"
    /\ args["adapter-states"].Value =
           StrVal(<<"powered", ":", "y", ",", "scan", ":", "off">>)
    /\ config["adapter-states"].t = "map"
    /\ config["adapter-states"].v[<<"powered">>] = <<"yes">>
    /\ config["adapter-states"].v[<<"scan">>] = <<"no">>

\* C3: when the adapter-states validator accepts n comma-separated tokens,
\* the stored sequence is the n property names in input order, duplicates
\* kept, and the mapping holds, for exactly the properties named, the
\* canonical state of the last token naming each.
C3_SequenceAndMapping ==
    [][(StatesStep /\ ~exited') =>
        LET m == config'["adapter-states"].v
            n == Len(Tokens)
        IN  /\ m[<<"sequence">>] = Join([i \in 1..n |-> TokFields(i)[1]], ",")
            /\ Len(Split(m[<<"sequence">>], ",")) = n
            /\ DOMAIN m = {TokFields(i)[1] : i \in 1..n} \cup {<<"sequence">>}
            /\ \A i \in 1..n :
                  IsLastNaming(i) =>
                      m[TokFields(i)[1]] =
                          (IF TokFields(i)[2] \in YesWords THEN <<"yes">> ELSE <<"no">>)
    ]_vars

\* C3 witness: "scan:on,powered:off" has been stored as {scan: yes,
\* powered: no} with sequence scan,powered.
C3_Witness ==
    /\ pc = "connect-bdaddr"
    /\ args["adapter-states"].Value = StrVal(ScenarioScanPowered)
    /\ config["adapter-states"] =
           MapVal((<<"scan">> :> <<"yes">>) @@ (<<"powered">> :> <<"no">>)
                  @@ (<<"sequence">> :> <<"scan", ",", "powered">>))

\* the diagnostic names token i as the failing one
NamesToken(text, i) ==
    LET f == TokFields(i) IN
    IF Len(f) # 2
    THEN text = <<"Provided property:state format '">> \o Tokens[i] \o <<"' is incorrect.">>
    ELSE IF ~KnownProperty(f[1])
    THEN /\ text[1] = "Provided property '"
         /\ SubSeq(text, 2, Len(f[1]) + 1) = f[1]
    ELSE /\ text[1] = "Provided state '"
         /\ SubSeq(text, 2, Len(f[2]) + 1) = f[2]
         /\ SubSeq(text, Len(f[2]) + 3, Len(f[2]) + Len(f[1]) + 2) = f[1]

\* C4: if a token of the adapter-states text is malformed, the validator
\* fails fatally with the diagnostic of the first malformed token and the
\* store is left as it was: no mapping of the earlier tokens is stored.
C4_NoPartialMapping ==
    [][(StatesStep /\ \E i \in 1..Len(Tokens) : ~WellFormed(i)) =>
        LET bad == CHOOSE i \in 1..Len(Tokens) :
                       ~WellFormed(i) /\ \A j \in 1..(i - 1) : WellFormed(j)
        IN  /\ exited' /\ status' = 1
            /\ pc' = "adapter-states"
            /\ config' = config
            /\ NamesToken(stderr', bad)
    ]_vars

\* C4 witness: "powered: yes, scan:off, Pairable:Yes" has failed at its
\* third token as an unknown property.
C4_Witness ==
    /\ pc = "adapter-states" /\ exited /\ status = 1
    /\ config["adapter-states"] = StrVal(ScenarioPairable)
    /\ SubSeq(stderr, 1, 2) = <<"Provided property '", "Pairable">>

\* C5: the gsm validator fails, writing nothing, exactly when gsm-apn is
\* non-empty and gsm-number is empty; otherwise it stores gsm-apn unchanged
\* and gsm-number as supplied, or *99# when none was supplied. From then on
\* gsm-number is non-empty and a non-empty gsm-apn has a supplied number.
C5_Gsm ==
    [][/\ (pc = "gsm" /\ ~exited) =>
            LET apn == GetProperty(Proc, "gsm-apn")
                num == GetProperty(Proc, "gsm-number")
            IN  /\ exited' <=> (apn # <<>> /\ num = <<>>)
                /\ exited' => (status' = 1 /\ config' = config)
                /\ ~exited' =>
                      /\ config' = [config EXCEPT
                             !["gsm-apn"] = StrVal(apn),
                             !["gsm-number"] =
                                 StrVal(IF num = <<>> THEN <<"*99#">> ELSE num)]
                      /\ config'["gsm-apn"] = config["gsm-apn"]
                      /\ (apn # <<>> => config'["gsm-number"] = config["gsm-number"])
       /\ IndexOf(pc') > IndexOf("gsm") =>
            /\ config'["gsm-number"].t = "str" /\ config'["gsm-number"].v # <<>>
            /\ config'["gsm-apn"].t = "str"
    ]_vars

\* C5 witness: the validator has defaulted the number of a store with
\* neither an APN nor a number.
C5_Witness ==
    /\ pc = "theme"
    /\ ~args["gsm-number"].Changed /\ file["gsm-number"] = StrVal(<<>>)
    /\ config["gsm-apn"] = StrVal(<<>>)
    /\ config["gsm-number"] = StrVal(<<"*99#">>)

\* the indexes of the live adapters whose base path segment is text
BaseMatches(text) == {i \in 1..Len(adapters) : Base(adapters[i].Path) = text}

\* C6: given a non-empty adapter property, the adapter validator makes the
\* first live adapter whose base path segment equals it the current one and
\* fails, setting none, when there is none; given an empty property it
\* selects the runtime default and never fails.
C6_AdapterExact ==
    [][(pc = "adapter" /\ ~exited) =>
        LET text == GetProperty(Proc, "adapter") IN
        /\ text = <<>> =>
              (~exited' /\ current' = IF adapters = <<>> THEN NoAdapter ELSE adapters[1])
        /\ (text # <<>> /\ BaseMatches(text) = {}) =>
              (exited' /\ status' = 1 /\ current' = current)
        /\ (text # <<>> /\ BaseMatches(text) # {}) =>
              /\ ~exited'
              /\ current' = adapters[CHOOSE i \in BaseMatches(text) :
                                        \A j \in BaseMatches(text) : i <= j]
              /\ LET path == current'.Path IN
                    /\ SubSeq(path, Len(path) - Len(text) + 1, Len(path)) = text
                    /\ path[Len(path) - Len(text)] = "/"
    ]_vars

\* C6 witness: hci0 has selected the first of two adapters whose path ends
\* in hci0.
C6_Witness ==
    /\ pc = "list-adapters"
    /\ config["adapter"] = StrVal(<<"hci", "0">>)
    /\ adapters = <<Hci1, Alt0, Hci0>>
    /\ current = Alt0

\* C6 second case: the prefix hci of a live adapter's name has been refused.
C6_PrefixRefused ==
    /\ pc = "adapter" /\ exited /\ status = 1
    /\ config["adapter"] = StrVal(<<"hci">>)
    /\ adapters = <<Hci0, Hci1>>
    /\ current = NoAdapter

RECURSIVE ListText(_)
\* a line "- <base segment>" for each adapter from index i on
ListText(i) ==
    IF i > Len(adapters) THEN <<>>
    ELSE <<"\n", "- ">> \o Base(adapters[i].Path) \o ListText(i + 1)

\* the list-adapters validator takes a step with list-adapters enabled
ListStep == pc = "list-adapters" /\ ~exited /\ IsPropertyEnabled(Proc, "list-adapters")

\* C7 as stated: with list-adapters enabled the validator prints every
\* adapter's base path segment, leaves the store unchanged and option
\* processing goes on with the next validator.
C7_ListContinues ==
    [][ListStep =>
        /\ stdout' = <<"List of adapters:">> \o ListText(1)
        /\ config' = config
        /\ ~exited' /\ pc' = "adapter-states"
    ]_vars

\* C7 amended: with list-adapters enabled the validator prints every
\* adapter's base path segment, leaves the store unchanged and terminates
\* the process with status 0; no validator runs after it.
C7_ListTerminates ==
    [][/\ ListStep =>
            /\ stdout' = <<"List of adapters:">> \o ListText(1)
            /\ config' = config
            /\ exited' /\ status' = 0 /\ pc' = "list-adapters"
       /\ ~exited
    ]_vars

\* C7 witness: the two adapters have been listed and the process has ended.
C7_Witness ==
    /\ pc = "list-adapters" /\ exited /\ status = 0
    /\ config["list-adapters"] = BoolVal(TRUE)
    /\ stdout = <<"List of adapters:", "\n", "- ", "hci", "0", "\n", "- ", "hci", "1">>

\* the address the connect-bdaddr validator is about to read is one of the
\* current adapter's devices
KnownDevice(addr) == \E i \in 1..Len(GetDevices(Proc)) : GetDevices(Proc)[i] = addr

\* a theme mapping names only recognized elements and colors
ThemeOk(m) == \A k \in DOMAIN m : k \in ThemeElements /\ m[k] \in ThemeColors

\* the validation failure of each step, on the state the step starts from
FailsAt(step) ==
    CASE step = "parse" -> ~pathOk \/ (~help /\ (~argsOk \/ ~fileOk))
      [] step = "adapter" ->
             GetProperty(Proc, "adapter") # <<>>
             /\ BaseMatches(GetProperty(Proc, "adapter")) = {}
      [] step = "adapter-states" ->
             RawStates # <<>> /\ \E i \in 1..Len(Tokens) : ~WellFormed(i)
      [] step = "connect-bdaddr" ->
             /\ GetProperty(Proc, "connect-bdaddr") # <<>>
             /\ current # NoAdapter
             /\ ~KnownDevice(GetProperty(Proc, "connect-bdaddr"))
      [] step = "receive-dir" ->
             GetProperty(Proc, "receive-dir") # <<>>
             /\ Stat(GetProperty(Proc, "receive-dir")) # "dir"
      [] step = "gsm" ->
             GetProperty(Proc, "gsm-apn") # <<>> /\ GetProperty(Proc, "gsm-number") = <<>>
      [] step = "theme" ->
             \/ /\ config["theme"].t = "str"
                /\ \/ ~hjsonUnmarshal(config["theme"].v).ok
                   \/ ~ThemeOk(hjsonUnmarshal(config["theme"].v).v)
             \/ config["theme"].t = "map" /\ ~ThemeOk(config["theme"].v)
      [] OTHER -> FALSE

\* the informational action of each step, on the state the step starts from
InformsAt(step) ==
    CASE step = "parse" -> pathOk /\ help
      [] step = "list-adapters" -> IsPropertyEnabled(Proc, "list-adapters")
      [] step = "generate" -> IsPropertyEnabled(Proc, "generate")
      [] step = "version" -> IsPropertyEnabled(Proc, "version")
      [] OTHER -> FALSE

\* every option of the store has passed its validator
Resolved ==
    /\ \/ GetProperty(Proc, "adapter") = <<>>
       \/ Base(current.Path) = GetProperty(Proc, "adapter")
    /\ GetProperty(Proc, "adapter-states") = <<>>
    /\ config["adapter-states"].t = "map" =>
           \A k \in DOMAIN config["adapter-states"].v \ {<<"sequence">>} :
               /\ KnownProperty(k)
               /\ config["adapter-states"].v[k] \in {<<"yes">>, <<"no">>}
    /\ \/ GetProperty(Proc, "connect-bdaddr") = <<>>
       \/ current = NoAdapter
       \/ KnownDevice(GetProperty(Proc, "connect-bdaddr"))
    /\ \/ GetProperty(Proc, "receive-dir") = <<>>
       \/ Stat(GetProperty(Proc, "receive-dir")) = "dir"
    /\ GetProperty(Proc, "gsm-number") # <<>>
    /\ config["theme"].t # "str"
    /\ config["theme"].t = "map" => ThemeOk(config["theme"].v)
    /\ ~IsPropertyEnabled(Proc, "list-adapters")
    /\ ~IsPropertyEnabled(Proc, "generate")
    /\ ~IsPropertyEnabled(Proc, "version")

\* C8 as stated: a run of the validators ends either with every validator
\* completed and the process proceeding on a resolved store, or with a
\* validation failure and a non-zero status.
C8_ProceedOrFail ==
    (pc # "parse" /\ (exited \/ pc = "run")) =>
        \/ pc = "run" /\ ~exited /\ Resolved
        \/ exited /\ status # 0

\* C8 amended: a run of the validators ends with every validator completed
\* and the process proceeding on a resolved store, or at the first
\* validation failure with a non-zero status, or at an informational action
\* (list-adapters, generate, version) with status 0; nothing runs and
\* nothing is written after the process has ended.
C8_NeverPartial ==
    [][/\ ~exited
       /\ pc # "run"
       /\ (exited' /\ status' # 0) <=> FailsAt(pc)
       /\ (exited' /\ status' = 0) <=> (InformsAt(pc) /\ ~FailsAt(pc))
       /\ exited' => (pc' = pc /\ (status' # 0 => stderr' # <<>>))
       /\ ~exited' => pc' = After(pc)
       /\ pc' = "run" => (~exited' /\ Resolved')
    ]_vars

\* C8 witness: the process has proceeded with several options resolved.
C8_Witness ==
    /\ pc = "run" /\ ~exited
    /\ config["adapter-states"].t = "map"
    /\ config["receive-dir"] = StrVal(<<"/", "tmp">>)
    /\ config["connect-bdaddr"] = StrVal(<<"AA:BB:CC:DD:EE:FF">>)
    /\ config["gsm-apn"] = StrVal(<<"foo">>)
    /\ config["theme"].t = "map" /\ DOMAIN config["theme"].v # {}

\* C8 second case: the receive directory has failed after adapter-states was
\* resolved, and the GSM number after it was never defaulted.
C8_FailedMidway ==
    /\ pc = "receive-dir" /\ exited /\ status = 1
    /\ config["adapter-states"].t = "map"
    /\ config["gsm-number"] = StrVal(<<>>)

\* C9: a validator that completes on a store completes again on the store
\* it left, and leaves it as it is.
C9_Idempotent ==
    [][~exited' =>
        /\ pc = "adapter-states" => cmdOptionAdapterStates(Proc') = Proc'
        /\ pc = "connect-bdaddr" => cmdOptionConnectBDAddr(Proc') = Proc'
        /\ pc = "receive-dir" => cmdOptionReceiveDir(Proc') = Proc'
        /\ pc = "gsm" => cmdOptionGsm(Proc') = Proc'
        /\ pc = "theme" => cmdOptionTheme(Proc') = Proc'
    ]_vars

\* C9 witness: the adapter-states and the theme validators have stored
\* their mappings, and the other validators have written the store.
C9_Witness ==
    /\ pc = "generate"
    /\ config["adapter-states"].t = "map"
    /\ args["theme"].Value = StrVal(GoodTheme)
    /\ config["theme"] = MapVal((<<"Adapter">> :> <<"red">>) @@ (<<"Device">> :> <<"blue">>))
    /\ config["gsm-number"] = StrVal(<<"*99#">>)
    /\ config["receive-dir"] = StrVal(<<"/", "tmp">>)
    /\ config["connect-bdaddr"] = StrVal(<<"AA:BB:CC:DD:EE:FF">>)

\* C10: the connect-bdaddr validator leaves the store unchanged and does not
\* fail when the address is empty or no current adapter is resolved;
\* otherwise it completes, re-storing the address, exactly when the address
\* is that of a device of the current adapter, and fails when it is not.
C10_ConnectBDAddr ==
    [][(pc = "connect-bdaddr" /\ ~exited) =>
        LET addr == GetProperty(Proc, "connect-bdaddr") IN
        /\ config' = config
        /\ (addr = <<>> \/ current = NoAdapter) => ~exited'
        /\ (addr # <<>> /\ current # NoAdapter) =>
              /\ ~exited' <=> KnownDevice(addr)
              /\ exited' => status' = 1
              /\ ~exited' => config'["connect-bdaddr"] = StrVal(addr)
    ]_vars

\* C10 witness: an address no device has, has passed with no current adapter.
C10_Witness ==
    /\ pc = "receive-dir" /\ ~exited
    /\ current = NoAdapter
    /\ config["connect-bdaddr"] = StrVal(<<"aa:bb:cc:dd:ee:ff">>)

\* C10 second case: an address of another adapter's device has been refused.
C10_Refused ==
    /\ pc = "connect-bdaddr" /\ exited /\ status = 1
    /\ current = Hci0
    /\ config["connect-bdaddr"] = StrVal(<<"CC:CC:CC:CC:CC:CC">>)

====
